---- MODULE Spec2Model ----
(***************************************************************************)
(* Spooling and delivery pipeline of the monitoring agent (src/agent.py)   *)
(* and the collector's socket handler (src/server.py).                     *)
(*                                                                         *)
(* The agent process is a single thread; pc is its position in             *)
(* continuous_collection / send_files_to_server.  The collector is modelled *)
(* by the handler of the connection the agent currently has (or last had). *)
(*                                                                         *)
(* SpecHandler is handle_client alone, fed with the byte stream of any      *)
(* client, split into reads in every possible way, with the two MongoDB    *)
(* collections behind save_to_mongodb.  SpecHttp is submit_data, SpecServer *)
(* the listen loop, the handler threads and handle_exit.                   *)
(***************************************************************************)
EXTENDS Integers, Sequences, FiniteSets, TLC

\* ---------------------------------------------------------------- bounds
\* Number of records the Snapshot Source produces over the whole run.
MaxWrites == 2
\* Storage ceiling of is_storage_limit_reached, in size units (200 MiB scaled).
limit_bytes == 3
\* Largest Sample record, in size units.
MaxSampleSize == 2
\* Size of a Profile record, in size units.
ProfileSize == 2
\* SEND_INTERVAL expressed in sleep ticks (30 s scaled).
SendTicks == 1

VARIABLES
    files,               \* DATA_DIR: sequence number n |-> content of n.json
    file_counter,        \* global file_counter
    initial_data_saved,  \* global initial_data_saved
    pc,                  \* position of the agent process
    elapsed,             \* time since last_send_time, in ticks, capped at SendTicks
    json_files,          \* send_files_to_server: the listing being iterated
    idx,                 \* send_files_to_server: index of the current entry
    conn,                \* client socket: "none", "open", "dropped" (peer closed)
    c2s,                 \* frames sent by the agent, not yet dispatched by handle_client
    s2c,                 \* reply lines sent by handle_client, not yet read by the agent
    persisted,           \* ids of the records the Persistence Gateway stored
    nextId,              \* identity of the next record the Snapshot Source yields
    cycleFailed,         \* history: a round-trip of the current cycle has failed
    profileWritten,      \* history: 1.json has been written at least once
    hStream,             \* handle_client: the bytes a client sends on its connection
    hPos,                \* handle_client: how many of them recv has returned
    buffer,              \* handle_client: local buffer
    hLog,                \* handle_client: the messages dispatched, in order
    hOut,                \* handle_client: the reply lines sent, in order
    db,                  \* MongoDB: the initial and the variable collection
    hPc,                 \* handle_client: "idle", "reading", "closed"
    httpLog,             \* submit_data: the requests served and their responses
    server_running,      \* global server_running
    listener,            \* start_socket_server: "test", "accept", "closed"
    sess,                \* connection k |-> position of its handle_client thread
    sockOpen,            \* the connections whose client_socket is not closed
    connected_clients,   \* global connected_clients: client_addr |-> connection
    addr,                \* connection k |-> its client_addr (0 before accept)
    peerGone,            \* the connections whose client has closed or reset
    answered,            \* connection k |-> number of frames answered
    exitPc,              \* handle_exit: "idle", "iterating", "sleeping", "exit0", "exit1"
    exitLen,             \* handle_exit: size of connected_clients when the for began
    exitSeen,            \* handle_exit: the keys the for has visited
    atSignal             \* history: the registered connections open when the signal came

vars == <<files, file_counter, initial_data_saved, pc, elapsed, json_files, idx,
          conn, c2s, s2c, persisted, nextId, cycleFailed, profileWritten,
          hStream, hPos, buffer, hLog, hOut, db, hPc,
          httpLog, server_running, listener, sess, sockOpen, connected_clients,
          addr, peerGone, answered, exitPc, exitLen, exitSeen, atSignal>>

pipelineVars == <<files, file_counter, initial_data_saved, pc, elapsed, json_files,
                  idx, conn, c2s, s2c, persisted, nextId, cycleFailed,
                  profileWritten>>
handlerVars == <<hStream, hPos, buffer, hLog, hOut, db, hPc>>
serverVars == <<server_running, listener, sess, sockOpen, connected_clients,
                addr, peerGone, answered, exitPc, exitLen, exitSeen, atSignal>>
collectorVars == <<handlerVars, httpLog, serverVars>>

agentVars  == <<file_counter, initial_data_saved>>
cycleVars  == <<json_files, idx, cycleFailed>>
netVars    == <<conn, c2s, s2c>>

\* ------------------------------------------------------------- helpers
Min(a, b) == IF a < b THEN a ELSE b

\* os.path.exists(f"{DATA_DIR}/{n}.json")
Exists(fs, n) == n \in DOMAIN fs

RECURSIVE SumSizes(_, _)
SumSizes(fs, S) ==
    IF S = {} THEN 0
    ELSE LET n == CHOOSE x \in S : TRUE
         IN fs[n].size + SumSizes(fs, S \ {n})

\* A total that leaves 1.json out.
get_data_directory_size_noProfile(fs) == SumSizes(fs, DOMAIN fs \ {1})

\* get_data_directory_size: sum of the sizes of the .json files
get_data_directory_size(fs) == SumSizes(fs, DOMAIN fs)

\* A storage check that lets the total reach the ceiling (> for >=).
is_storage_limit_reached_gt(fs) == get_data_directory_size(fs) > limit_bytes

\* is_storage_limit_reached: current_size >= limit_bytes
is_storage_limit_reached(fs) == get_data_directory_size(fs) >= limit_bytes

\* The scan "while os.path.exists(file_counter.json): file_counter += 1"
\* shared by get_next_filename, save_variable_data_to_file and
\* initialize_data_collection.
RECURSIVE NextFree(_, _)
NextFree(fs, c) == IF Exists(fs, c) THEN NextFree(fs, c + 1) ELSE c

\* All orders in which os.listdir may return the entries of S.
RECURSIVE Perms(_)
Perms(S) ==
    IF S = {} THEN { <<>> }
    ELSE UNION { { <<x>> \o p : p \in Perms(S \ {x}) } : x \in S }

\* What a write of record r leaves on disk when the write is cut short
\* (open(..., 'w') has created the file, json.dump did not finish).
Truncated(r) == [kind |-> "partial", id |-> r.id, size |-> 1]

\* Number of connections clients open to the collector.
MaxSessions == 2
\* Number of frames the collector answers on one connection.
MaxReplies == 1
\* Number of requests sent to the HTTP ingress.
MaxRequests == 2

Sessions == 1..MaxSessions

\* server.py, lines 42-43 and 356-369: the collector before any connection,
\* request or signal.
ServerIdle ==
    /\ httpLog = <<>>
    /\ server_running = TRUE
    /\ listener = "test"
    /\ sess = [k \in Sessions |-> "none"]
    /\ sockOpen = {}
    /\ connected_clients = <<>>
    /\ addr = [k \in Sessions |-> 0]
    /\ peerGone = {}
    /\ answered = [k \in Sessions |-> 0]
    /\ exitPc = "idle"
    /\ exitLen = 0
    /\ exitSeen = {}
    /\ atSignal = {}

\* No client other than the agent is connected and the database is empty.
HandlerIdle ==
    /\ hStream = <<>>
    /\ hPos = 0
    /\ buffer = <<>>
    /\ hLog = <<>>
    /\ hOut = <<>>
    /\ db = [initial |-> <<>>, variable |-> <<>>]
    /\ hPc = "idle"

\* ------------------------------------------------------------ the agent
Init ==
    /\ files = <<>>
    /\ file_counter = 1
    /\ initial_data_saved = FALSE
    /\ pc = "main"
    /\ elapsed = 0
    /\ json_files = <<>>
    /\ idx = 1
    /\ conn = "none"
    /\ c2s = <<>>
    /\ s2c = <<>>
    /\ persisted = {}
    /\ nextId = 1
    /\ cycleFailed = FALSE
    /\ profileWritten = FALSE
    /\ HandlerIdle
    /\ ServerIdle

\* A counter that starts its scan at 1, as reset_file_counter does.
FirstSampleNumber_fromOne(fs) == NextFree(fs, 1)

\* initialize_data_collection, lines 884-886: file_counter = 2, then the
\* scan past existing entries.
FirstSampleNumber(fs) == NextFree(fs, 2)

\* initialize_data_collection, called by __main__ and again by
\* continuous_collection.
initialize_data_collection ==
    /\ pc \in {"main", "cc"}
    /\ initial_data_saved' = Exists(files, 1)
    /\ file_counter' = FirstSampleNumber(files)
    /\ pc' = IF pc = "main" THEN "cc" ELSE "check"
    /\ UNCHANGED <<files, elapsed, cycleVars, netVars, persisted, nextId,
                   profileWritten>>
    /\ UNCHANGED collectorVars

\* continuous_collection, lines 1026-1029: the storage check and its break.
LimitCheck ==
    /\ pc = "check"
    /\ pc' = IF is_storage_limit_reached(files) THEN "exited" ELSE "profile"
    /\ UNCHANGED <<files, agentVars, elapsed, cycleVars, netVars, persisted, nextId,
                   profileWritten>>
    /\ UNCHANGED collectorVars

\* The record collect_initial_data returns.
InitialRecord == [kind |-> "profile", id |-> nextId, size |-> ProfileSize]

\* An early return that trusts the flag alone and forgets the existence check.
ProfileAlreadySaved_flagOnly(saved, fs) == saved

\* save_initial_data, line 829: the early return.
ProfileAlreadySaved(saved, fs) == saved \/ Exists(fs, 1)

\* collect_initial_data, lines 714-716: what it returns when gathering
\* raises, {"error": str(e)}.
InitialError == [kind |-> "error", id |-> nextId, size |-> 1]

\* save_initial_data: no-op, complete write (of the Profile or of the error
\* dict collect_initial_data returned), write cut short, or failed open.
save_initial_data ==
    IF ProfileAlreadySaved(initial_data_saved, files)
    THEN UNCHANGED <<files, initial_data_saved, nextId, profileWritten>>
    ELSE \/ /\ nextId <= MaxWrites
            /\ \/ /\ \E r \in {InitialRecord, InitialError} :
                        files' = (1 :> r) @@ files
                  /\ initial_data_saved' = TRUE
               \/ /\ files' = (1 :> Truncated(InitialRecord)) @@ files
                  /\ initial_data_saved' = initial_data_saved
            /\ nextId' = nextId + 1
            /\ profileWritten' = TRUE
         \/ UNCHANGED <<files, initial_data_saved, nextId, profileWritten>>

\* continuous_collection, lines 1031-1033.
SaveInitialStep ==
    /\ pc = "profile"
    /\ IF initial_data_saved
       THEN UNCHANGED <<files, initial_data_saved, nextId, profileWritten>>
       ELSE save_initial_data
    /\ pc' = "sample"
    /\ UNCHANGED <<file_counter, elapsed, cycleVars, netVars, persisted>>
    /\ UNCHANGED collectorVars

\* A write that uses file_counter as it is, without the existence scan.
SampleSlot_noScan(fs, c) == c

\* A scan that starts one past file_counter.
SampleSlot_skip(fs, c) == NextFree(fs, c + 1)

\* save_variable_data_to_file, lines 851-854: the sequence number written to.
SampleSlot(fs, c) == NextFree(fs, c)

\* A write that leaves file_counter on the number it has just used.
AdvanceCounter_stay(n) == n

\* save_variable_data_to_file, line 860: file_counter += 1 after the write.
AdvanceCounter(n) == n + 1

\* save_variable_data_to_file for a collected record of size s: complete
\* write, write cut short, or failed open.
save_variable_data_to_file(s) ==
    LET n == SampleSlot(files, file_counter)
        r == [kind |-> "sample", id |-> nextId, size |-> s]
    IN  \/ /\ nextId <= MaxWrites
           /\ \/ /\ files' = (n :> r) @@ files
                 /\ file_counter' = AdvanceCounter(n)
              \/ /\ files' = (n :> Truncated(r)) @@ files
                 /\ file_counter' = n
           /\ nextId' = nextId + 1
        \/ /\ files' = files
           /\ file_counter' = n
           /\ nextId' = nextId

\* continuous_collection, lines 1035-1040: collect_variable_data returns a
\* record, or {"error": ...} which is not saved.
SaveVariableStep ==
    /\ pc = "sample"
    /\ \/ \E s \in 1..MaxSampleSize : save_variable_data_to_file(s)
       \/ UNCHANGED <<files, file_counter, nextId>>
    /\ pc' = "timer"
    /\ UNCHANGED <<initial_data_saved, elapsed, cycleVars, netVars, persisted,
                   profileWritten>>
    /\ UNCHANGED collectorVars

\* A send timer that is due on every pass of the loop.
SendDue_always(e) == TRUE

\* continuous_collection, line 1044: current_time - last_send_time >=
\* SEND_INTERVAL.
SendDue(e) == e >= SendTicks

\* continuous_collection, lines 1042-1046: the send timer.
TimerStep ==
    /\ pc = "timer"
    /\ IF SendDue(elapsed)
       THEN pc' = "list" /\ elapsed' = 0
       ELSE pc' = "sleep" /\ elapsed' = elapsed
    /\ UNCHANGED <<files, agentVars, cycleVars, netVars, persisted, nextId,
                   profileWritten>>
    /\ UNCHANGED collectorVars

\* continuous_collection, line 1048: time.sleep(COLLECTION_INTERVAL).
SleepStep ==
    /\ pc = "sleep"
    /\ \E d \in 1..SendTicks : elapsed' = Min(elapsed + d, SendTicks)
    /\ pc' = "check"
    /\ UNCHANGED <<files, agentVars, cycleVars, netVars, persisted, nextId,
                   profileWritten>>
    /\ UNCHANGED collectorVars

\* --------------------------------------------------- the delivery cycle
\* ---------------------------------------------------------- JSON texts
\* A text is a sequence of characters.  The characters that matter are the
\* braces of an object, the newline, the run of characters that spells the
\* members of an object (Members(obj): one symbol), a number, a non-ASCII
\* character and a character that starts no JSON value.
LB == [t |-> "{"]
RB == [t |-> "}"]
NL == [t |-> "newline"]
Members(obj) == [t |-> "members", v |-> obj]
Num == [t |-> "number"]
NonAscii == [t |-> "e-acute"]
Junk == [t |-> "junk"]

\* json.dumps of a dict.
json_dumps(obj) == IF DOMAIN obj = {} THEN <<LB, RB>> ELSE <<LB, Members(obj), RB>>

\* dict[k] = v
SetKey(obj, k, v) == [x \in DOMAIN obj \cup {k} |-> IF x = k THEN v ELSE obj[x]]

\* json.loads: ok = FALSE stands for JSONDecodeError; dict tells a JSON
\* object from another JSON value.  An object text is "{" members "}", with
\* or without a non-ASCII character in a string value, or "{}".
json_loads(text) ==
    IF text = <<LB, RB>>
    THEN [ok |-> TRUE, dict |-> TRUE, value |-> <<>>]
    ELSE IF Len(text) = 3 /\ text[1] = LB /\ text[2].t = "members" /\ text[3] = RB
    THEN [ok |-> TRUE, dict |-> TRUE, value |-> text[2].v]
    ELSE IF /\ Len(text) = 4 /\ text[1] = LB /\ text[2].t = "members"
            /\ text[3] = NonAscii /\ text[4] = RB
    THEN [ok |-> TRUE, dict |-> TRUE, value |-> SetKey(text[2].v, "nom", "e-acute")]
    ELSE IF text = <<Num>>
    THEN [ok |-> TRUE, dict |-> FALSE, value |-> Num]
    ELSE [ok |-> FALSE]

\* --------------------------------------------------- the delivery cycle
MACHINE_ID == "node"

\* The dict a record of the Snapshot Source is: collect_initial_data yields
\* os, type_machine, adresse_mac among its keys, collect_variable_data does
\* not; data stands for the measured values.
RecordObject(rec) ==
    IF rec.kind = "profile"
    THEN [timestamp |-> "ts", os |-> "os", type_machine |-> "tm",
          adresse_mac |-> "aa:bb", data |-> rec.id]
    ELSE IF rec.kind = "error"
    THEN [error |-> "e", data |-> rec.id]
    ELSE [timestamp |-> "ts", data |-> rec.id]

\* send_files_to_server, lines 915-916: the text read from the entry's file;
\* a write that was cut short left a text without its end.
FileText(rec) ==
    IF rec.kind = "partial"
    THEN <<LB, Members([data |-> rec.id])>>
    ELSE json_dumps(RecordObject(rec))

\* An envelope that does not name its sender.
Frame_noMachineId(fs, n) ==
    json_dumps([filename |-> n, content |-> FileText(fs[n]), timestamp |-> "now"])

\* send_files_to_server, lines 919-927: the line sent for entry n, without
\* its newline.
Frame(fs, n) ==
    json_dumps([filename |-> n, content |-> FileText(fs[n]),
                machine_id |-> MACHINE_ID, timestamp |-> "now"])

\* send_files_to_server, line 897: os.listdir returns the entries in an
\* arbitrary order.
Listings(fs) == Perms(DOMAIN fs)

\* A delivery failure that is raised again and ends the loop.
AfterSendAttempt_fatal == "exited"

\* send_files_to_server, lines 945-952, and continuous_collection, lines
\* 1045-1048: the socket is closed or the except clauses log the failure,
\* the function returns and the loop goes on to its sleep.
AfterSendAttempt == "sleep"

\* send_files_to_server, lines 897-908: listing and connect.  A new
\* connection gets a new handler: c2s and s2c restart empty.
StartCycle ==
    /\ pc = "list"
    /\ \E l \in Listings(files) :
          /\ json_files' = l
          /\ idx' = 1
          /\ cycleFailed' = FALSE
          /\ IF l = <<>>
             THEN /\ pc' = "sleep"
                  /\ UNCHANGED netVars
             ELSE \/ /\ conn' = "open"
                     /\ c2s' = <<>>
                     /\ s2c' = <<>>
                     /\ pc' = "send"
                  \/ /\ pc' = AfterSendAttempt
                     /\ UNCHANGED netVars
    /\ UNCHANGED <<files, agentVars, elapsed, persisted, nextId, profileWritten>>
    /\ UNCHANGED collectorVars

\* send_files_to_server, lines 912-928: read entry idx and send its frame.
SendFrame ==
    /\ pc = "send"
    /\ idx <= Len(json_files)
    /\ \/ /\ conn = "open"
          /\ c2s' = Append(c2s, Frame(files, json_files[idx]))
          /\ pc' = "recv"
          /\ UNCHANGED <<idx, cycleFailed>>
       \/ /\ conn = "dropped"   \* the write is accepted locally and lost
          /\ pc' = "recv"
          /\ UNCHANGED <<c2s, idx, cycleFailed>>
       \/ /\ conn = "dropped"   \* sendall raises, line 942 catches it
          /\ cycleFailed' = TRUE
          /\ idx' = idx + 1
          /\ UNCHANGED <<c2s, pc>>
    /\ UNCHANGED <<files, agentVars, elapsed, json_files, conn, s2c, persisted,
                   nextId, profileWritten>>
    /\ UNCHANGED collectorVars

\* recv(1024).decode().strip() of the reply lines ls read in one call.
Received(ls) == [kind |-> "data", lines |-> [i \in 1..Len(ls) |-> ls[i].text]]

\* An acknowledgment test that accepts any non-empty reply.
ReplyIsOK_any(r) == r.kind = "data" /\ r.lines # <<>>

\* send_files_to_server, line 933: response == "OK".
ReplyIsOK(r) == r.kind = "data" /\ r.lines = <<"OK">>

\* A recv on a socket without timeout: it blocks while nothing arrives on a
\* live connection.
RecvOutcomes_blocking ==
    IF s2c # <<>>
    THEN { <<Received(SubSeq(s2c, 1, k)), SubSeq(s2c, k + 1, Len(s2c))>> :
             k \in 1..Len(s2c) }
    ELSE IF conn = "open"
    THEN {}
    ELSE { <<[kind |-> "data", lines |-> <<>>], s2c>>,
           <<[kind |-> "error", lines |-> <<>>], s2c>> }

\* What one recv on the client socket can produce: (response, reply lines
\* left in the socket).  Nothing to read: timeout on a live connection,
\* empty read or error on a lost one.
RecvOutcomes ==
    IF s2c # <<>>
    THEN { <<Received(SubSeq(s2c, 1, k)), SubSeq(s2c, k + 1, Len(s2c))>> :
             k \in 1..Len(s2c) }
    ELSE IF conn = "open"
    THEN { <<[kind |-> "timeout", lines |-> <<>>], s2c>> }
    ELSE { <<[kind |-> "data", lines |-> <<>>], s2c>>,
           <<[kind |-> "error", lines |-> <<>>], s2c>> }

\* A removal that leaves the file where it is.
RemoveEntry_none(fs, n) == fs

\* send_files_to_server, line 935: os.remove(file_path).
RemoveEntry(fs, n) == [m \in DOMAIN fs \ {n} |-> fs[m]]

\* send_files_to_server, lines 931-943: wait for the reply of entry idx.
RecvReply ==
    /\ pc = "recv"
    /\ \E o \in RecvOutcomes :
          /\ s2c' = o[2]
          /\ IF ReplyIsOK(o[1])
             THEN /\ files' = RemoveEntry(files, json_files[idx])
                  /\ cycleFailed' = cycleFailed
             ELSE /\ files' = files
                  /\ cycleFailed' = TRUE
    /\ idx' = idx + 1
    /\ pc' = "send"
    /\ UNCHANGED <<agentVars, elapsed, json_files, conn, c2s, persisted, nextId,
                   profileWritten>>
    /\ UNCHANGED collectorVars

\* A cycle that returns without closing its socket.
client_socket_close_skipped == conn

\* send_files_to_server, line 946: client_socket.close().
client_socket_close == "none"

\* send_files_to_server, lines 945-947: the loop is over, close the socket.
CloseCycle ==
    /\ pc = "send"
    /\ idx > Len(json_files)
    /\ conn' = client_socket_close
    /\ s2c' = <<>>
    /\ pc' = AfterSendAttempt
    /\ UNCHANGED <<files, agentVars, elapsed, cycleVars, c2s, persisted, nextId,
                   profileWritten>>
    /\ UNCHANGED collectorVars

\* The process ends (kill, crash, the loop's break) and is started again:
\* lines 55-56 reset the globals, the directory stays.
Restart ==
    /\ pc # "main"
    /\ pc' = "main"
    /\ file_counter' = 1
    /\ initial_data_saved' = FALSE
    /\ elapsed' = 0
    /\ json_files' = <<>>
    /\ idx' = 1
    /\ cycleFailed' = FALSE
    /\ conn' = "none"
    /\ s2c' = <<>>
    /\ UNCHANGED <<files, c2s, persisted, nextId, profileWritten>>
    /\ UNCHANGED collectorVars

\* ------------------------------------------------------- the collector
\* What extract_data_from_message returns: None, or a value.
None == [valid |-> FALSE]
Some(v, isDict) == [valid |-> TRUE, dict |-> isDict, value |-> v]

\* An envelope whose machine_id is not copied into the payload.
AttachMachineId_skip(data, file_content) == Some(file_content.value, file_content.dict)

\* extract_data_from_message, lines 142-145: file_content['machine_id'] =
\* data['machine_id'] when the envelope has one; the assignment raises on a
\* nested value that is not a dict, and line 155 returns None.
AttachMachineId(data, file_content) ==
    IF "machine_id" \in DOMAIN data
    THEN IF file_content.dict
         THEN Some(SetKey(file_content.value, "machine_id", data.machine_id), TRUE)
         ELSE None
    ELSE Some(file_content.value, file_content.dict)

\* extract_data_from_message, lines 130-157.
extract_data_from_message(message) ==
    LET data == json_loads(message)
    IN  IF ~data.ok THEN None                  \* lines 152-154
        ELSE IF ~data.dict THEN None           \* 'filename' in 5 raises, line 155
        ELSE IF "filename" \in DOMAIN data.value /\ "content" \in DOMAIN data.value
        THEN LET file_content == json_loads(data.value.content)
             IN  IF ~file_content.ok THEN None \* lines 146-148
                 ELSE AttachMachineId(data.value, file_content)
        ELSE Some(data.value, TRUE)

\* handle_client, line 192: "if file_data:" is false for None and for {}.
Truthy(file_data) ==
    /\ file_data.valid
    /\ file_data.dict => DOMAIN file_data.value # {}

FormatError == "ERROR: Format de donnees invalide"
SaveError == "ERROR: Echec de l'enregistrement dans MongoDB"

\* A reply that does not look at what extract_data_from_message returned.
ReplyText_anyFrame(file_data, saved) == IF saved THEN "OK" ELSE SaveError

\* A reply that does not look at what save_to_mongodb returned.
ReplyText_anySave(file_data, saved) ==
    IF Truthy(file_data) THEN "OK" ELSE FormatError

\* handle_client, lines 192-200: the reply to a frame, given what
\* extract_data_from_message returned and whether save_to_mongodb succeeded.
ReplyText(file_data, saved) ==
    IF Truthy(file_data)
    THEN IF saved THEN "OK" ELSE SaveError
    ELSE FormatError

\* The identity of the record a frame of the agent carries.
FrameId(frame) == frame[2].v.content[2].v.data

\* handle_client, lines 185-200: dispatch the next complete frame of the
\* agent.  The agent writes each frame with one sendall and waits for the
\* reply, so the handler's buffer holds whole lines; the Persistence Gateway
\* is seen through the set of record ids it stored.
ServerDispatch ==
    /\ c2s # <<>>
    /\ LET frame == Head(c2s)
           file_data == extract_data_from_message(frame)
       IN  \E saved \in BOOLEAN :
              /\ persisted' = IF Truthy(file_data) /\ saved
                              THEN persisted \cup {file_data.value.data}
                              ELSE persisted
              /\ IF conn = "open"
                 THEN /\ s2c' = Append(s2c, [text |-> ReplyText(file_data, saved),
                                              for |-> FrameId(frame)])
                      /\ c2s' = Tail(c2s)
                 ELSE /\ s2c' = s2c      \* the agent is gone: the reply is lost,
                      /\ \/ c2s' = Tail(c2s)   \* the handler goes on, or
                         \/ c2s' = <<>>        \* sendall raises and it ends
    /\ UNCHANGED <<files, agentVars, pc, elapsed, cycleVars, conn, nextId,
                   profileWritten>>
    /\ UNCHANGED collectorVars

\* The connection is lost from the collector's side (handler ends, the
\* collector shuts down, the network drops): frames not yet read are lost,
\* replies already delivered to the agent's socket can still be read.
ServerDrop ==
    /\ conn = "open"
    /\ conn' = "dropped"
    /\ c2s' = <<>>
    /\ UNCHANGED <<files, agentVars, pc, elapsed, cycleVars, s2c, persisted, nextId,
                   profileWritten>>
    /\ UNCHANGED collectorVars

Next ==
    \/ initialize_data_collection
    \/ LimitCheck
    \/ SaveInitialStep
    \/ SaveVariableStep
    \/ TimerStep
    \/ SleepStep
    \/ StartCycle
    \/ SendFrame
    \/ RecvReply
    \/ CloseCycle
    \/ Restart
    \/ ServerDispatch
    \/ ServerDrop

Spec == Init /\ [][Next]_vars

\* The steps of the agent process.
AgentStep ==
    \/ initialize_data_collection
    \/ LimitCheck
    \/ SaveInitialStep
    \/ SaveVariableStep
    \/ TimerStep
    \/ SleepStep
    \/ StartCycle
    \/ SendFrame
    \/ RecvReply
    \/ CloseCycle

\* The agent is a running single-threaded process and each of its blocking
\* calls ends by itself (time.sleep, socket operations under settimeout(5)):
\* it takes its next step whenever it has one.  Nothing is assumed about the
\* collector.
SpecFair == Init /\ [][Next]_vars /\ WF_vars(AgentStep)

\* The agent is started on a data directory that already holds one Sample
\* of an earlier run and no 1.json (DATA_DIR outlives the process).
InitLeftover ==
    /\ \E s \in 1..MaxSampleSize :
          files = (2 :> [kind |-> "sample", id |-> 0, size |-> s])
    /\ file_counter = 1
    /\ initial_data_saved = FALSE
    /\ pc = "main"
    /\ elapsed = 0
    /\ json_files = <<>>
    /\ idx = 1
    /\ conn = "none"
    /\ c2s = <<>>
    /\ s2c = <<>>
    /\ persisted = {}
    /\ nextId = 1
    /\ cycleFailed = FALSE
    /\ profileWritten = FALSE
    /\ HandlerIdle
    /\ ServerIdle

SpecLeftover == InitLeftover /\ [][Next]_vars

\* ------------------------------------- the handler on any byte stream
\* Number of complete lines in the stream a client sends.
MaxFrames == 2

\* The two bytes of the UTF-8 encoding of the non-ASCII character.
Lead == [t |-> "0xC3"]
Cont == [t |-> "0xA9"]

\* str.encode('utf-8')
RECURSIVE encode(_)
encode(text) ==
    IF text = <<>> THEN <<>>
    ELSE (IF Head(text) = NonAscii THEN <<Lead, Cont>> ELSE <<Head(text)>>)
         \o encode(Tail(text))

\* bytes.decode('utf-8'): ok = FALSE stands for UnicodeDecodeError (a lead
\* byte without its continuation byte, a continuation byte without its lead).
RECURSIVE decode(_)
decode(bytes) ==
    IF bytes = <<>> THEN [ok |-> TRUE, text |-> <<>>]
    ELSE IF Head(bytes) = Cont THEN [ok |-> FALSE]
    ELSE IF Head(bytes) = Lead
    THEN IF Len(bytes) >= 2 /\ bytes[2] = Cont
         THEN LET r == decode(SubSeq(bytes, 3, Len(bytes)))
              IN  IF r.ok THEN [ok |-> TRUE, text |-> <<NonAscii>> \o r.text] ELSE r
         ELSE [ok |-> FALSE]
    ELSE LET r == decode(Tail(bytes))
         IN  IF r.ok THEN [ok |-> TRUE, text |-> <<Head(bytes)>> \o r.text] ELSE r

\* handle_client, line 185: '\n' in buffer.
HasNewline(buf) == \E i \in 1..Len(buf) : buf[i] = NL

\* A split that throws away what follows the first message.
SplitBuffer_dropRest(buf) ==
    LET i == CHOOSE j \in 1..Len(buf) :
                buf[j] = NL /\ \A k \in 1..(j - 1) : buf[k] # NL
    IN  <<SubSeq(buf, 1, i - 1), <<>>>>

\* handle_client, line 187: message, buffer = buffer.split('\n', 1).
SplitBuffer(buf) ==
    LET i == CHOOSE j \in 1..Len(buf) :
                buf[j] = NL /\ \A k \in 1..(j - 1) : buf[k] # NL
    IN  <<SubSeq(buf, 1, i - 1), SubSeq(buf, i + 1, Len(buf))>>

\* A classification that takes one of the two keys for a Profile.
is_initial_data_either(data) == "os" \in DOMAIN data \/ "type_machine" \in DOMAIN data

\* save_to_mongodb, line 71.
is_initial_data(data) == "os" \in DOMAIN data /\ "type_machine" \in DOMAIN data

\* save_to_mongodb, lines 75-76 and 105-106: the timestamp added if missing.
WithTimestamp(data) ==
    IF "timestamp" \in DOMAIN data THEN data ELSE SetKey(data, "timestamp", "now")

\* data['adresse_mac'].replace(':', '')
StripColons(mac) == IF mac = "aa:bb" THEN "aabb" ELSE mac

\* save_to_mongodb, lines 82-84 and 110-113: the machine identifier, "None"
\* for Python's None.
MachineIdOf(data) ==
    IF "machine_id" \in DOMAIN data THEN data.machine_id
    ELSE IF "adresse_mac" \in DOMAIN data THEN StripColons(data.adresse_mac)
    ELSE "None"

HasMachineId(doc, key) == "machine_id" \in DOMAIN doc /\ doc.machine_id = key

\* update_one({'machine_id': key}, {'$set': data}, upsert=True): the first
\* document of that machine gets the fields of data; without one, a
\* document made of the filter and of data is inserted.
Upsert(coll, key, data) ==
    IF \E i \in 1..Len(coll) : HasMachineId(coll[i], key)
    THEN LET i == CHOOSE j \in 1..Len(coll) :
                     /\ HasMachineId(coll[j], key)
                     /\ \A k \in 1..(j - 1) : ~HasMachineId(coll[k], key)
         IN  [coll EXCEPT ![i] =
                 [x \in DOMAIN data \cup DOMAIN coll[i] |->
                     IF x \in DOMAIN data THEN data[x] ELSE coll[i][x]]]
    ELSE Append(coll, SetKey(data, "machine_id", key))

\* save_to_mongodb, lines 71-118, when the connection to MongoDB works: the
\* database after the call.
save_to_mongodb(d, data) ==
    IF is_initial_data(data)
    THEN LET doc == WithTimestamp(data)
             machine_id == MachineIdOf(doc)
         IN  IF machine_id # "None"
             THEN [d EXCEPT !.initial = Upsert(d.initial, machine_id, doc)]
             ELSE [d EXCEPT !.initial = Append(d.initial, doc)]
    ELSE LET doc == WithTimestamp(data)
         IN  [d EXCEPT !.variable =
                 Append(d.variable,
                        IF "machine_id" \in DOMAIN doc THEN doc
                        ELSE SetKey(doc, "machine_id", MachineIdOf(doc)))]

\* A handler that leaves a frame it cannot read without a reply.
Replies_silent(file_data, saved) ==
    IF Truthy(file_data) THEN <<ReplyText(file_data, saved)>> ELSE <<>>

\* handle_client, lines 192-200: the lines sent back for one message.
Replies(file_data, saved) == <<ReplyText(file_data, saved)>>

\* Payloads a client may send.
ProfileDoc == [os |-> "os", type_machine |-> "tm", adresse_mac |-> "aa:bb"]
SampleDoc == [timestamp |-> "ts", cpu |-> "c"]
OsOnlyDoc == [os |-> "os", machine_id |-> "m2"]
TmOnlyDoc == [type_machine |-> "tm"]
BareProfileDoc == [os |-> "os", type_machine |-> "tm"]

\* An envelope of send_files_to_server around a file text.
Envelope(n, text) ==
    json_dumps([filename |-> n, content |-> text, machine_id |-> MACHINE_ID,
                timestamp |-> "now"])

\* The lines a client may send: envelopes (of a Profile, of a Sample, of a
\* payload with a machine_id of its own, of a text cut short, one without
\* machine_id), bare payloads (one a Profile that names no machine), {}, a number, a line that is not JSON, an
\* object with a non-ASCII character.
HandlerMessages ==
    { Envelope(1, json_dumps(ProfileDoc)),
      Envelope(2, json_dumps(SampleDoc)),
      Envelope(3, json_dumps(OsOnlyDoc)),
      Envelope(4, <<LB, Members(SampleDoc)>>),
      json_dumps([filename |-> 1, content |-> json_dumps(ProfileDoc)]),
      json_dumps(OsOnlyDoc),
      json_dumps(TmOnlyDoc),
      json_dumps(BareProfileDoc),
      <<LB, RB>>,
      <<Num>>,
      <<Junk>>,
      <<LB, Members(SampleDoc), NonAscii, RB>> }

RECURSIVE JoinLines(_)
JoinLines(ms) ==
    IF ms = <<>> THEN <<>> ELSE Head(ms) \o <<NL>> \o JoinLines(Tail(ms))

\* The byte streams: up to MaxFrames lines, then nothing or the beginning
\* of one more line.
Streams ==
    { encode(JoinLines(ms) \o rest) :
        ms \in UNION { [1..n -> HandlerMessages] : n \in 0..MaxFrames },
        rest \in { <<>>, <<LB>> } }

\* handle_client is started on a new connection of a client that will send
\* hStream; the agent of this model is not running.
InitHandler ==
    /\ files = <<>>
    /\ file_counter = 1
    /\ initial_data_saved = FALSE
    /\ pc = "main"
    /\ elapsed = 0
    /\ json_files = <<>>
    /\ idx = 1
    /\ conn = "none"
    /\ c2s = <<>>
    /\ s2c = <<>>
    /\ persisted = {}
    /\ nextId = 1
    /\ cycleFailed = FALSE
    /\ profileWritten = FALSE
    /\ hStream \in Streams
    /\ hPos = 0
    /\ buffer = <<>>
    /\ hLog = <<>>
    /\ hOut = <<>>
    /\ db = [initial |-> <<>>, variable |-> <<>>]
    /\ hPc = "reading"
    /\ ServerIdle

\* handle_client, lines 176-182: recv returns some of the bytes in flight;
\* the chunk is decoded on its own and appended to the buffer.  A chunk that
\* does not decode raises, line 203 catches it and the handler ends.
HandlerRecv ==
    /\ hPc = "reading"
    /\ ~HasNewline(buffer)
    /\ hPos < Len(hStream)
    /\ \E k \in 1..(Len(hStream) - hPos) :
          LET data == decode(SubSeq(hStream, hPos + 1, hPos + k))
          IN  /\ hPos' = hPos + k
              /\ IF data.ok
                 THEN buffer' = buffer \o data.text /\ hPc' = hPc
                 ELSE buffer' = buffer /\ hPc' = "closed"
    /\ UNCHANGED <<hStream, hLog, hOut, db, pipelineVars, httpLog, serverVars>>

\* handle_client, lines 177-179: the client has closed, recv returns ''.
HandlerEof ==
    /\ hPc = "reading"
    /\ ~HasNewline(buffer)
    /\ hPos = Len(hStream)
    /\ hPc' = "closed"
    /\ UNCHANGED <<hStream, hPos, buffer, hLog, hOut, db, pipelineVars, httpLog, serverVars>>

\* handle_client, lines 185-200: one turn of the inner loop.  up tells
\* whether MongoDB can be reached and written; save_to_mongodb on a value
\* that is not a dict raises and returns False.
HandlerDispatch ==
    /\ hPc = "reading"
    /\ HasNewline(buffer)
    /\ LET message == SplitBuffer(buffer)[1]
           file_data == extract_data_from_message(message)
       IN  \E up \in BOOLEAN :
              LET saved == up /\ (file_data.valid => file_data.dict)
              IN  /\ buffer' = SplitBuffer(buffer)[2]
                  /\ hLog' = Append(hLog, message)
                  /\ db' = IF Truthy(file_data) /\ saved
                           THEN save_to_mongodb(db, file_data.value)
                           ELSE db
                  /\ hOut' = hOut \o Replies(file_data, saved)
    /\ UNCHANGED <<hStream, hPos, hPc, pipelineVars, httpLog, serverVars>>

NextHandler ==
    \/ HandlerRecv
    \/ HandlerEof
    \/ HandlerDispatch

SpecHandler == InitHandler /\ [][NextHandler]_vars

\* ------------------------------------------------------ the HTTP ingress
\* The bodies a client may POST to /submit: payloads, {}, a number, a body
\* that is not JSON, an empty body.
HttpBodies ==
    { json_dumps(ProfileDoc), json_dumps(SampleDoc), json_dumps(BareProfileDoc),
      json_dumps(OsOnlyDoc), <<LB, RB>>, <<Num>>, <<Junk>>, <<>> }

\* A request: is_json tells whether its Content-Type is application/json.
HttpRequests == [is_json : BOOLEAN, body : HttpBodies]

\* jsonify({"status": ..., "message": ...}), code
Response(code, status, message) ==
    [code |-> code, status |-> status, message |-> message]

\* submit_data, lines 256-271: the response to req; saved is the result of
\* save_to_mongodb.  request.get_json() raises BadRequest on a body it
\* cannot parse; the except of line 269 answers 500 with str(e).
submit_data(req, saved) ==
    IF ~req.is_json
    THEN Response(400, "error", "Content-Type doit etre application/json")
    ELSE IF ~json_loads(req.body).ok
    THEN Response(500, "error", "400 Bad Request")
    ELSE IF saved
    THEN Response(200, "success", "Donnees enregistrees avec succes")
    ELSE Response(500, "error", "Echec de l'enregistrement des donnees")

\* One request served by submit_data.  up tells whether MongoDB can be
\* reached and written; save_to_mongodb on a value that is not a dict raises
\* and returns False.
SubmitData ==
    /\ Len(httpLog) < MaxRequests
    /\ \E req \in HttpRequests, up \in BOOLEAN :
          LET data == json_loads(req.body)
              called == req.is_json /\ data.ok
              saved == called /\ up /\ data.dict
          IN  /\ db' = IF saved THEN save_to_mongodb(db, data.value) ELSE db
              /\ httpLog' = Append(httpLog, [request |-> req, saved |-> saved,
                                             response |-> submit_data(req, saved)])
    /\ UNCHANGED <<hStream, hPos, buffer, hLog, hOut, hPc, pipelineVars, serverVars>>

\* The collector serving HTTP requests only.
InitHttp == Init

NextHttp == SubmitData

SpecHttp == InitHttp /\ [][NextHttp]_vars

\* ------------------------------------- listener, handlers and shutdown
\* The process is running: sys.exit has not been called.  The listener and
\* the handlers are daemon threads and end with the process.
Alive == exitPc \notin {"exit0", "exit1"}

\* A collector that runs handle_client inside the listen loop: a connection
\* is served only when no other one is.
HandlerThread_inline(k) == \A j \in Sessions \ {k} : sess[j] \in {"none", "done"}

\* start_socket_server, lines 237-239: handle_client runs in a thread of
\* its own; nothing has to finish before it can run.
HandlerThread(k) == TRUE

\* The connections whose socket is stored in connected_clients.
Registered == { connected_clients[a] : a \in DOMAIN connected_clients }

\* The connection is established at both ends.
Live(k) == sess[k] \notin {"none", "done"} /\ k \in sockOpen /\ k \notin peerGone

\* handle_client, line 162: client_addr is the peer's ip:port.  A new
\* connection comes from an address no connection has had, or from the
\* address of a connection whose client has gone and whose handler has not
\* finished; never from the address of a connection still established.
AddrChoices(k) ==
    { a \in {k} \cup { addr[j] : j \in { i \in Sessions \ {k} :
                                           /\ sess[i] \notin {"none", "done"}
                                           /\ i \in peerGone } } :
        \A i \in Sessions : Live(i) => addr[i] # a }

\* start_socket_server, line 231: the test of while server_running; line
\* 247 closes the listening socket when it fails.
ListenerTest ==
    /\ Alive
    /\ listener = "test"
    /\ listener' = IF server_running THEN "accept" ELSE "closed"
    /\ UNCHANGED <<server_running, sess, sockOpen, connected_clients, addr, peerGone,
                   answered, exitPc, exitLen, exitSeen, atSignal,
                   pipelineVars, handlerVars, httpLog>>

\* The connections are numbered in the order accept returns them.
NextConnection(k) == sess[k] = "none" /\ \A j \in 1..(k - 1) : sess[j] # "none"

\* start_socket_server, lines 234-239: accept returns the connection k and
\* its handler thread is started.
ListenerAccept(k) ==
    /\ Alive
    /\ listener = "accept"
    /\ NextConnection(k)
    /\ HandlerThread(k)
    /\ \E a \in AddrChoices(k) : addr' = [addr EXCEPT ![k] = a]
    /\ sess' = [sess EXCEPT ![k] = "started"]
    /\ sockOpen' = sockOpen \cup {k}
    /\ listener' = "test"
    /\ UNCHANGED <<server_running, connected_clients, peerGone, answered,
                   exitPc, exitLen, exitSeen, atSignal,
                   pipelineVars, handlerVars, httpLog>>

\* start_socket_server, lines 228 and 240-242: accept times out after 1.0 s.
ListenerTimeout ==
    /\ Alive
    /\ listener = "accept"
    /\ listener' = "test"
    /\ UNCHANGED <<server_running, sess, sockOpen, connected_clients, addr, peerGone,
                   answered, exitPc, exitLen, exitSeen, atSignal,
                   pipelineVars, handlerVars, httpLog>>

\* The client of connection k closes or resets it while the collector runs.
PeerClose(k) ==
    /\ Alive
    /\ sess[k] \notin {"none", "done"}
    /\ k \notin peerGone
    /\ peerGone' = peerGone \cup {k}
    /\ UNCHANGED <<server_running, listener, sess, sockOpen, connected_clients, addr,
                   answered, exitPc, exitLen, exitSeen, atSignal,
                   pipelineVars, handlerVars, httpLog>>

\* handle_client, lines 165-169: connected_clients[client_addr] = {...}.
RegisterEntry(cc, a, k) == (a :> k) @@ cc

\* handle_client, lines 208-209: if client_addr in connected_clients: del.
UnregisterEntry(cc, a, k) == [b \in DOMAIN cc \ {a} |-> cc[b]]

\* handle_client, lines 165-174: the handler registers its connection and
\* tests server_running; when the test fails the finally closes the socket.
HandlerRegister(k) ==
    /\ Alive
    /\ sess[k] = "started"
    /\ HandlerThread(k)
    /\ connected_clients' = RegisterEntry(connected_clients, addr[k], k)
    /\ sess' = [sess EXCEPT ![k] = IF server_running THEN "reading" ELSE "closing"]
    /\ sockOpen' = IF server_running THEN sockOpen ELSE sockOpen \ {k}
    /\ UNCHANGED <<server_running, listener, addr, peerGone, answered,
                   exitPc, exitLen, exitSeen, atSignal,
                   pipelineVars, handlerVars, httpLog>>

\* handle_client, lines 176-192: recv returns a complete line and the
\* handler enters save_to_mongodb.
HandlerFrame(k) ==
    /\ Alive
    /\ sess[k] = "reading"
    /\ HandlerThread(k)
    /\ k \in sockOpen
    /\ k \notin peerGone
    /\ answered[k] < MaxReplies
    /\ sess' = [sess EXCEPT ![k] = "saving"]
    /\ UNCHANGED <<server_running, listener, sockOpen, connected_clients, addr,
                   peerGone, answered, exitPc, exitLen, exitSeen, atSignal,
                   pipelineVars, handlerVars, httpLog>>

\* handle_client, lines 192-200 and 174: the gateway call returns, the
\* reply is sent and server_running is tested again.  sendall on a socket
\* handle_exit has closed raises, on a connection the client has left it
\* raises or writes into the void; the finally closes the socket.
HandlerReply(k) ==
    /\ Alive
    /\ sess[k] = "saving"
    /\ HandlerThread(k)
    /\ answered' = [answered EXCEPT ![k] = IF Live(k) THEN @ + 1 ELSE @]
    /\ \/ /\ k \in sockOpen
          /\ server_running
          /\ sess' = [sess EXCEPT ![k] = "reading"]
          /\ sockOpen' = sockOpen
       \/ /\ ~Live(k) \/ ~server_running
          /\ sess' = [sess EXCEPT ![k] = "closing"]
          /\ sockOpen' = sockOpen \ {k}
    /\ UNCHANGED <<server_running, listener, connected_clients, addr, peerGone,
                   exitPc, exitLen, exitSeen, atSignal,
                   pipelineVars, handlerVars, httpLog>>

\* handle_client, lines 177-179 and 201-207: recv returns '' or raises;
\* the finally closes the socket.
HandlerEnd(k) ==
    /\ Alive
    /\ sess[k] = "reading"
    /\ HandlerThread(k)
    /\ sess' = [sess EXCEPT ![k] = "closing"]
    /\ sockOpen' = sockOpen \ {k}
    /\ UNCHANGED <<server_running, listener, connected_clients, addr, peerGone,
                   answered, exitPc, exitLen, exitSeen, atSignal,
                   pipelineVars, handlerVars, httpLog>>

\* handle_client, lines 208-210: del connected_clients[client_addr]; the
\* handler returns, its client_addr and its connection are no more.
HandlerUnregister(k) ==
    /\ Alive
    /\ sess[k] = "closing"
    /\ HandlerThread(k)
    /\ connected_clients' = UnregisterEntry(connected_clients, addr[k], k)
    /\ sess' = [sess EXCEPT ![k] = "done"]
    /\ addr' = [addr EXCEPT ![k] = 0]
    /\ peerGone' = peerGone \ {k}
    /\ UNCHANGED <<server_running, listener, sockOpen, answered,
                   exitPc, exitLen, exitSeen, atSignal,
                   pipelineVars, handlerVars, httpLog>>

\* handle_exit, lines 284-289: SIGINT or SIGTERM; the flag is cleared and
\* the for over connected_clients.items() begins.
Signal ==
    /\ exitPc = "idle"
    /\ server_running' = FALSE
    /\ exitPc' = "iterating"
    /\ exitLen' = Cardinality(DOMAIN connected_clients)
    /\ exitSeen' = {}
    /\ atSignal' = Registered \cap sockOpen
    /\ UNCHANGED <<listener, sess, sockOpen, connected_clients, addr, peerGone,
                   answered,
                   pipelineVars, handlerVars, httpLog>>

\* handle_exit, lines 289-294: one turn of the for.  The iterator of a dict
\* raises RuntimeError when the size of the dict is not the one it began
\* with; nothing in handle_exit catches it, the except Exception of the main
\* thread (line 394) does and calls sys.exit(1).  Otherwise the socket of a
\* key not yet visited is closed, or the for ends.
ExitIterate ==
    /\ exitPc = "iterating"
    /\ IF Cardinality(DOMAIN connected_clients) # exitLen
       THEN exitPc' = "exit1" /\ UNCHANGED <<exitSeen, sockOpen>>
       ELSE IF DOMAIN connected_clients \ exitSeen # {}
       THEN \E a \in DOMAIN connected_clients \ exitSeen :
               /\ sockOpen' = sockOpen \ {connected_clients[a]}
               /\ exitSeen' = exitSeen \cup {a}
               /\ exitPc' = exitPc
       ELSE exitPc' = "sleeping" /\ UNCHANGED <<exitSeen, sockOpen>>
    /\ UNCHANGED <<server_running, listener, sess, connected_clients, addr, peerGone,
                   answered, exitLen, atSignal,
                   pipelineVars, handlerVars, httpLog>>

\* handle_exit, lines 297-298: time.sleep(1), then sys.exit(0).  The sleep
\* is as long as the timeout of accept: the listen loop has tested the
\* flag and closed its socket when the sleep ends.
ExitSleepDone ==
    /\ exitPc = "sleeping"
    /\ listener = "closed"
    /\ exitPc' = "exit0"
    /\ UNCHANGED <<server_running, listener, sess, sockOpen, connected_clients,
                   addr, peerGone, answered, exitLen, exitSeen, atSignal,
                   pipelineVars, handlerVars, httpLog>>

InitServer == Init

NextServer ==
    \/ ListenerTest
    \/ \E k \in Sessions : ListenerAccept(k)
    \/ ListenerTimeout
    \/ \E k \in Sessions : PeerClose(k)
    \/ \E k \in Sessions : HandlerRegister(k)
    \/ \E k \in Sessions : HandlerFrame(k)
    \/ \E k \in Sessions : HandlerReply(k)
    \/ \E k \in Sessions : HandlerEnd(k)
    \/ \E k \in Sessions : HandlerUnregister(k)
    \/ Signal
    \/ ExitIterate
    \/ ExitSleepDone

SpecServer == InitServer /\ [][NextServer]_vars

\* ================================================================ claims
\* A step of RecvReply: the agent finishes the round-trip of json_files[idx].
RoundTripEnds == pc = "recv" /\ pc' = "send"

\* A step of SendFrame that puts a frame on the wire.
FrameSent == pc = "send" /\ pc' = "recv"

\* A step of save_variable_data_to_file that creates or rewrites a file.
SampleWritten == pc = "sample" /\ pc' = "timer" /\ files' # files

\* A step of save_initial_data that creates or rewrites 1.json.
ProfileWriteStep == pc = "profile" /\ pc' = "sample" /\ files' # files

\* The reply lines consumed by the recv of this step.
LinesRead == SubSeq(s2c, 1, Len(s2c) - Len(s2c'))

\* C1: every entry the Delivery Client deletes is one whose payload the
\* Collector persisted and whose deletion rests on the OK the Collector sent
\* for that entry's own frame, never on a reply produced for another frame.
C1_DeletedOnlyOnOwnAck ==
    [][\A n \in DOMAIN files :
          n \notin DOMAIN files' =>
             /\ files[n].id \in persisted
             /\ s2c # <<>>
             /\ Head(s2c).for = files[n].id]_vars

\* C2: the Delivery Client removes an entry only in that entry's round-trip
\* and only when the response read there is exactly the line OK; on any
\* other outcome of the read every file stays, and no other entry is touched.
C2_DeleteOnlyOnOK ==
    [][/\ \A n \in DOMAIN files :
             n \notin DOMAIN files' =>
                /\ RoundTripEnds
                /\ n = json_files[idx]
                /\ Len(LinesRead) = 1
                /\ LinesRead[1].text = "OK"
       /\ RoundTripEnds =>
             \/ Len(LinesRead) = 1 /\ LinesRead[1].text = "OK"
             \/ files' = files]_vars

\* C2 witness: a cycle has deleted its first entry on OK and kept its second
\* one on another outcome.
C2_Witness ==
    /\ pc = "send"
    /\ idx = 3
    /\ json_files[1] \notin DOMAIN files
    /\ json_files[2] \in DOMAIN files

\* C3: once a round-trip of the cycle has failed, the Delivery Client sends
\* no further frame in that cycle.
C3_NoFrameAfterFailure ==
    [][cycleFailed => ~FrameSent]_vars

\* C4: within a cycle the frames are sent in strictly ascending sequence
\* number order: the frame on the wire has a higher number than every entry
\* handled before it in the cycle.
C4_AscendingOrder ==
    pc = "recv" => \A i \in 1..(idx - 1) : json_files[i] < json_files[idx]

\* C5: across collection iterations, delivery cycles and restarts on the
\* same data directory, 1.json is written at most once.
C5_ProfileWrittenAtMostOnce ==
    [][profileWritten => ~ProfileWriteStep]_vars

\* C6: save_initial_data called while 1.json exists leaves the directory and
\* the content of 1.json unchanged.
C6_SaveInitialIdempotent ==
    [][(pc = "profile" /\ pc' = "sample" /\ Exists(files, 1)) => files' = files]_vars

\* C6 witness: save_initial_data has just been called (the flag was and is
\* FALSE) on a directory whose 1.json was written by an earlier call.
C6_Witness ==
    /\ pc = "sample"
    /\ ~initial_data_saved
    /\ Exists(files, 1)
    /\ files[1].id + 1 < nextId

\* C7: a Sample write goes to a sequence number for which no entry exists:
\* it creates one new entry and leaves every existing entry as it was.
C7_SampleNeverOverwrites ==
    [][SampleWritten =>
          /\ \A n \in DOMAIN files : n \in DOMAIN files' /\ files'[n] = files[n]
          /\ Cardinality(DOMAIN files') = Cardinality(DOMAIN files) + 1]_vars

\* C7 witness: a Sample has just been written past an entry that sat at
\* file_counter (left there by a write that was cut short).
C7_Witness ==
    /\ pc = "timer"
    /\ \E n \in DOMAIN files :
          /\ n >= 2
          /\ files[n].kind = "partial"
          /\ (n + 1) \in DOMAIN files
          /\ files[n + 1].id = nextId - 1
          /\ file_counter = n + 2

\* C8 (as claimed): the number reserved for a new Sample is the lowest
\* integer >= 2 for which no entry exists at the time of the write.
C8_LowestFreeFromTwo ==
    [][SampleWritten =>
          \E n \in DOMAIN files' \ DOMAIN files :
             /\ n >= 2
             /\ \A m \in 2..(n - 1) : m \in DOMAIN files]_vars

\* C8 (amended): the number reserved for a new Sample is the lowest integer
\* >= file_counter for which no entry exists, and it is >= 2; numbers below
\* file_counter that deliveries have freed are not taken.
C8_LowestFreeFromCounter ==
    [][SampleWritten =>
          \E n \in DOMAIN files' \ DOMAIN files :
             /\ n >= 2
             /\ n >= file_counter
             /\ \A m \in file_counter..(n - 1) : m \in DOMAIN files]_vars

\* C8 witness: the Sample written last sits above a free number >= 2.
C8_Witness ==
    /\ pc = "timer"
    /\ \E n \in DOMAIN files :
          /\ files[n].kind = "sample"
          /\ files[n].id = nextId - 1
          /\ file_counter = n + 1
          /\ \E m \in 2..(n - 1) : m \notin DOMAIN files

\* C9: no Sample is written in a state where the total size of the entries
\* is at or above the ceiling.
C9_NoSampleWriteAtCeiling ==
    [][SampleWritten => get_data_directory_size(files) < limit_bytes]_vars

\* C10 (as claimed): the total size of the spool never exceeds the ceiling.
C10_NeverAboveCeiling ==
    get_data_directory_size(files) <= limit_bytes

\* C10 (amended): an iteration collects only if the total was below the
\* ceiling at its storage check, so the total stays below the ceiling plus
\* the writes of one iteration (one Profile and one Sample).
C10_BoundedOvershoot ==
    /\ pc = "profile" => get_data_directory_size(files) < limit_bytes
    /\ get_data_directory_size(files) < limit_bytes + ProfileSize + MaxSampleSize

\* C10 witness: the total is above the ceiling.
C10_Witness ==
    get_data_directory_size(files) > limit_bytes

\* C11 (as claimed): meeting the quota only pauses collection; it never ends
\* the collection loop, which keeps running its delivery cycles.
C11_QuotaNeverEndsLoop ==
    pc # "exited"

\* A step of the delivery cycle (listing, send, receive, close).
CycleStep == pc \in {"list", "send", "recv"} /\ pc' \in {"send", "recv", "sleep"}

\* C12: in a delivery cycle, an entry whose round-trip read OK is absent
\* afterwards, an entry whose round-trip failed is still there with the same
\* content, entries handled earlier in the cycle are left as they are, and
\* the cycle creates no entry and changes no content.
C12_CycleEffect ==
    [][CycleStep =>
          /\ \A n \in DOMAIN files' : n \in DOMAIN files /\ files'[n] = files[n]
          /\ \A i \in 1..Min(idx - 1, Len(json_files)) :
                json_files[i] \in DOMAIN files => json_files[i] \in DOMAIN files'
          /\ RoundTripEnds =>
                IF Len(LinesRead) = 1 /\ LinesRead[1].text = "OK"
                THEN json_files[idx] \notin DOMAIN files'
                ELSE /\ json_files[idx] \in DOMAIN files'
                     /\ files'[json_files[idx]] = files[json_files[idx]]]_vars

\* C12 witness: a cycle is over in which one entry was acknowledged and is
\* gone and another one failed and is still in the spool.
C12_Witness ==
    /\ pc = "sleep"
    /\ Len(json_files) = 2
    /\ idx = 3
    /\ cycleFailed
    /\ \E i, j \in 1..2 :
          /\ json_files[i] \notin DOMAIN files
          /\ json_files[j] \in DOMAIN files

\* C13: when the connection drops during a cycle, the entries that are gone
\* after the cycle are exactly the ones the Collector acknowledged before
\* the drop: an entry removed on a dropped connection is removed on the OK
\* the Collector sent for that entry's frame.
C13_DropRemovesOnlyAcknowledged ==
    [][(RoundTripEnds /\ conn = "dropped") =>
          \A n \in DOMAIN files \ DOMAIN files' :
             /\ s2c # <<>>
             /\ Head(s2c).text = "OK"
             /\ Head(s2c).for = files[n].id]_vars

\* C15: an entry for whose frame save_to_mongodb returned False (the
\* Collector answered it with the ERROR line of a failed save) is not deleted
\* by the Delivery Client.
C15_FailedSaveKeepsEntry ==
    [][\A n \in DOMAIN files \ DOMAIN files' :
          ~\E i \in 1..Len(s2c) :
               s2c[i].for = files[n].id /\ s2c[i].text = SaveError]_vars

\* C16: the Collector sends OK for a frame only when the frame was well
\* formed and the Persistence Gateway stored its payload; a malformed frame
\* and a failed save are never answered with OK.
C16_OKOnlyAfterPersist ==
    [][Len(s2c') = Len(s2c) + 1 =>
          LET r == s2c'[Len(s2c')]
          IN  r.text = "OK" =>
                 /\ c2s # <<>>
                 /\ Truthy(extract_data_from_message(Head(c2s)))
                 /\ r.for \in persisted'
                 /\ r.for = extract_data_from_message(Head(c2s)).value.data]_vars

\* C16 witness: the Collector has answered one frame with OK after storing
\* its payload and another one with an ERROR line after a failed save.
C16_Witness ==
    \E i, j \in 1..Len(s2c) :
       /\ s2c[i].text = "OK"
       /\ s2c[i].for \in persisted
       /\ s2c[j].text = SaveError
       /\ s2c[j].for \notin persisted

\* A step of HandlerDispatch: one more message has been dispatched.
Dispatched == Len(hLog') = Len(hLog) + 1

\* The message a Dispatched step handles.
DispatchedMessage == hLog'[Len(hLog')]

IsErrorLine(line) == line \in {FormatError, SaveError}

\* C14: a complete line that is not valid JSON, or an envelope whose content
\* is not valid JSON, is answered with one line beginning with ERROR: and
\* the handler keeps reading: what follows the line stays buffered for the
\* next dispatch.
C14_InvalidFrameKeepsConnection ==
    [][(Dispatched /\ ~extract_data_from_message(DispatchedMessage).valid) =>
          /\ Len(hOut') = Len(hOut) + 1
          /\ IsErrorLine(hOut'[Len(hOut')])
          /\ hPc' = "reading"
          /\ DispatchedMessage \o <<NL>> \o buffer' = buffer]_vars

\* C14 witness: on one connection a line that is not valid JSON was answered
\* with an ERROR line and the valid frame that followed it with OK.
C14_Witness ==
    /\ Len(hOut) = 2
    /\ ~json_loads(hLog[1]).ok
    /\ IsErrorLine(hOut[1])
    /\ extract_data_from_message(hLog[2]).valid
    /\ hOut[2] = "OK"

\* C17: on one connection the frames are handled one after the other: each
\* dispatched frame has got its one reply line before the next is
\* dispatched, and the k-th reply is the reply to the k-th frame.
C17_OneReplyPerFrameInOrder ==
    /\ Len(hOut) = Len(hLog)
    /\ \A k \in 1..Len(hLog) :
          IF Truthy(extract_data_from_message(hLog[k]))
          THEN hOut[k] \in {"OK", SaveError}
          ELSE hOut[k] = FormatError

\* C17 witness: two frames of one connection have been answered, the first
\* with OK and the second with the ERROR line of an unreadable frame, while
\* the beginning of a third one is buffered.
C17_Witness ==
    /\ Len(hLog) = 2
    /\ hOut = <<"OK", FormatError>>
    /\ buffer # <<>>
    /\ hPc = "reading"

\* The text of the bytes received so far; the first byte of a character
\* whose second byte has not arrived is left out.
ReceivedText ==
    LET got == SubSeq(hStream, 1, hPos')
    IN  IF got # <<>> /\ got[Len(got)] = Lead
        THEN decode(SubSeq(got, 1, Len(got) - 1)).text
        ELSE decode(got).text

\* C18 (as claimed): whatever the sizes of the reads, after each read the
\* frames dispatched so far followed by the buffered text are the text
\* received so far (no frame is lost, none is dispatched before its newline,
\* the trailing part stays buffered) and the handler goes on reading.
C18_ChunkingIndependent ==
    [][hPos' > hPos =>
          /\ hPc' = "reading"
          /\ JoinLines(hLog') \o buffer' = ReceivedText]_vars

\* C19: for an envelope (filename and content) whose content is a JSON
\* object, extract_data_from_message returns that object with machine_id set
\* to the envelope's machine_id and every other member as it was; for any
\* other JSON object it returns the object itself.
C19_ExtractResult ==
    \A k \in 1..Len(hLog) :
       LET data == json_loads(hLog[k])
           r == extract_data_from_message(hLog[k])
       IN  (data.ok /\ data.dict) =>
              IF {"filename", "content"} \subseteq DOMAIN data.value
              THEN LET payload == json_loads(data.value.content)
                   IN  (payload.ok /\ payload.dict) =>
                          /\ r.valid
                          /\ \A x \in DOMAIN payload.value \ {"machine_id"} :
                                x \in DOMAIN r.value /\ r.value[x] = payload.value[x]
                          /\ IF "machine_id" \in DOMAIN data.value
                             THEN /\ DOMAIN r.value =
                                        DOMAIN payload.value \cup {"machine_id"}
                                  /\ r.value.machine_id = data.value.machine_id
                             ELSE r.value = payload.value
              ELSE r.valid /\ r.value = data.value

\* C19 witness: the handler has dispatched an envelope whose payload had a
\* machine_id of its own and a JSON object that is no envelope.
C19_Witness ==
    /\ Len(hLog) = 2
    /\ hLog[1] = Envelope(3, json_dumps(OsOnlyDoc))
    /\ hLog[2] = json_dumps(TmOnlyDoc)

\* The payload a Dispatched step handed to save_to_mongodb.
SavedPayload == extract_data_from_message(DispatchedMessage).value

\* doc has every member of data.
Holds(doc, data) == \A x \in DOMAIN data : x \in DOMAIN doc /\ doc[x] = data[x]

\* C20: a stored payload is a Profile (upserted into the initial collection)
\* exactly when it has both os and type_machine; a payload lacking either,
\* also one having exactly one of them, is a Sample: it is appended to the
\* variable collection and the initial collection is left alone.
C20_Classification ==
    [][(Dispatched /\ hOut'[Len(hOut')] = "OK") =>
          IF "os" \in DOMAIN SavedPayload /\ "type_machine" \in DOMAIN SavedPayload
          THEN /\ db'.variable = db.variable
               /\ \E i \in 1..Len(db'.initial) : Holds(db'.initial[i], SavedPayload)
          ELSE /\ db'.initial = db.initial
               /\ Len(db'.variable) = Len(db.variable) + 1
               /\ SubSeq(db'.variable, 1, Len(db.variable)) = db.variable
               /\ Holds(db'.variable[Len(db'.variable)], SavedPayload)]_vars

\* C20 witness: a payload with both keys sits in the initial collection and
\* a payload with os alone in the variable collection.
C20_Witness ==
    /\ Len(db.initial) = 1
    /\ Len(db.variable) = 1
    /\ {"os", "type_machine"} \subseteq DOMAIN db.initial[1]
    /\ "os" \in DOMAIN db.variable[1]
    /\ "type_machine" \notin DOMAIN db.variable[1]

\* C24: get_data_directory_size is the sum of the sizes of the entries in the
\* spool: a deletion takes the size of the deleted entry off it (a strict
\* decrease for a non-empty entry) and a write adds the size of the new
\* entry to it (a strict increase).
C24_TotalFollowsEntries ==
    [][/\ \A n \in DOMAIN files \ DOMAIN files' :
             /\ get_data_directory_size(files') =
                   get_data_directory_size(files) - files[n].size
             /\ files[n].size > 0 =>
                   get_data_directory_size(files') < get_data_directory_size(files)
       /\ \A n \in DOMAIN files' \ DOMAIN files :
             /\ get_data_directory_size(files') =
                   get_data_directory_size(files) + files'[n].size
             /\ get_data_directory_size(files') > get_data_directory_size(files)]_vars

\* C24 witness: a cycle has deleted the Profile and left a Sample, and the
\* total is the size of that Sample.
C24_Witness ==
    /\ pc = "send"
    /\ 1 \in {json_files[i] : i \in 1..(idx - 1)}
    /\ 1 \notin DOMAIN files
    /\ \E n \in DOMAIN files :
          DOMAIN files = {n} /\ get_data_directory_size(files) = files[n].size

\* C26: no transport failure ends the endpoint: a delivery cycle, whatever
\* fails in it, hands control back to the loop (its sleep); the loop is left
\* only at the storage check; and when the send interval has elapsed the
\* next cycle is started, also after a failed one.
C26_TransportFailureNotFatal ==
    [][/\ pc \in {"list", "send", "recv"} =>
             pc' \in {"list", "send", "recv", "sleep", "main"}
       /\ (pc' = "exited" /\ pc # "exited") =>
             (pc = "check" /\ is_storage_limit_reached(files))
       /\ (pc = "timer" /\ pc' # "timer" /\ elapsed >= SendTicks) =>
             pc' \in {"list", "main"}]_vars

\* C26 witness: a cycle had a failed round-trip and the loop is about to
\* start its next delivery cycle.
C26_Witness ==
    /\ pc = "list"
    /\ cycleFailed
    /\ files # <<>>

\* C27: every delivery cycle ends whatever the Collector does (connect and
\* each read are bounded by the socket timeout), so the loop gets back to
\* its sleep after a send attempt, and it keeps reaching its collection step
\* unless the quota has ended it (or the process is started again).
C27_CycleTerminates ==
    /\ (pc \in {"list", "send", "recv"}) ~> (pc \in {"sleep", "main"})
    /\ []<>(pc \in {"sample", "exited", "main"})

\* C27 witness: a cycle is over in which the Collector accepted the
\* connection and never replied: both frames are still unread and both
\* entries are still in the spool.
C27_Witness ==
    /\ pc = "sleep"
    /\ Len(json_files) = 2
    /\ idx = 3
    /\ Len(c2s) = 2
    /\ \A i \in 1..2 : json_files[i] \in DOMAIN files

\* Record i of the Snapshot Source sits in the spool.
InSpool(i) == \E n \in DOMAIN files : files[n].id = i

\* C25 (as claimed): the retention sweep bounds how long an entry is kept
\* when the Collector is permanently unreachable: if no connection is ever
\* established while the loop keeps iterating (it reaches its sleep again
\* and again), every record that is in the spool is out of it at some later
\* time.
C25_RetentionBounded ==
    (([](conn # "open")) /\ []<>(pc = "sleep")) =>
       \A i \in 1..MaxWrites : [](InSpool(i) => <>(~InSpool(i)))

ProfilesOf(coll, data) ==
    { i \in 1..Len(coll) : MachineIdOf(coll[i]) = MachineIdOf(data) }

\* C21: whenever a Profile payload has been persisted, however many times it
\* was persisted before, the initial collection holds exactly one document
\* for its machine; every persisted Sample adds exactly one document to the
\* variable collection.
C21_ProfileIdempotent ==
    [][(Dispatched /\ hOut'[Len(hOut')] = "OK") =>
          IF is_initial_data(SavedPayload)
          THEN Cardinality(ProfilesOf(db'.initial, SavedPayload)) = 1
          ELSE Len(db'.variable) = Len(db.variable) + 1]_vars

\* The request served last and what became of it.
LastHttp == httpLog[Len(httpLog)]

\* C23: submit_data answers 200 with status success exactly when the payload
\* was persisted, 400 with status error when the content of the request is
\* not JSON (its Content-Type or its body), 500 with status error when
\* persistence fails; every response has a status and a message.
C23_HttpResponses ==
    \A i \in 1..Len(httpLog) :
       LET req == httpLog[i].request
           resp == httpLog[i].response
           notJson == ~req.is_json \/ ~json_loads(req.body).ok
       IN  /\ {"status", "message"} \subseteq DOMAIN resp
           /\ (resp.code = 200 /\ resp.status = "success") <=> httpLog[i].saved
           /\ notJson => (resp.code = 400 /\ resp.status = "error")
           /\ (~notJson /\ ~httpLog[i].saved) =>
                 (resp.code = 500 /\ resp.status = "error")

\* C28: once the listen loop has seen server_running False it has closed
\* the listening socket, stays closed, accepts no connection and starts no
\* handler; and the loop does get there: when the process ends after a
\* shutdown signal, the loop has left its accept loop and closed the socket.
C28_ListenerStops ==
    [][/\ listener = "closed" =>
             /\ listener' = "closed"
             /\ \A k \in Sessions : sess[k] = "none" => sess'[k] = "none"
       /\ (exitPc' \in {"exit0", "exit1"}) => listener' = "closed"]_vars

\* C29: handle_exit is never aborted by a change of connected_clients, and
\* when its for has ended the socket of every registered connection that
\* was open when the signal came is closed.
C29_ShutdownClosesAll ==
    /\ exitPc # "exit1"
    /\ exitPc \in {"sleeping", "exit0"} => atSignal \cap sockOpen = {}

\* The handler of connection k is blocked: in recv or in the gateway call.
Blocked(k) == sess[k] \in {"reading", "saving"}

\* C30: while the handler of one connection is blocked, a frame arriving on
\* another accepted connection can be dispatched, a dispatched frame can be
\* answered, and the listener waiting in accept can accept a connection.
C30_HandlersIndependent ==
    \A j \in Sessions : \A k \in Sessions \ {j} :
       (Alive /\ Blocked(j)) =>
          /\ (sess[k] = "reading" /\ Live(k) /\ answered[k] < MaxReplies)
                => ENABLED HandlerFrame(k)
          /\ sess[k] = "saving" => ENABLED HandlerReply(k)
          /\ (listener = "accept" /\ NextConnection(k)) => ENABLED ListenerAccept(k)

\* C30 witness: connection 1 is inside the gateway call with nothing
\* answered yet, a frame of connection 2 has been answered, and the
\* listener is in accept.
C30_Witness ==
    /\ Alive
    /\ server_running
    /\ sess[1] = "saving"
    /\ answered[1] = 0
    /\ sess[2] = "reading"
    /\ answered[2] = 1
    /\ listener = "accept"

\* The agent is inside the for of send_files_to_server.
InCycle == pc \in {"send", "recv"}

\* C31: the agent has a socket only inside a delivery cycle; a connection
\* is opened only by the connect that starts a cycle, so a cycle has at
\* most one; and whenever the agent leaves the cycle, after the last entry
\* or after failed round-trips, the socket is closed.  A cycle whose connect
\* fails, or that finds nothing to send, has no connection at all.
C31_OneConnectionPerCycle ==
    [][/\ conn # "none" => InCycle
       /\ (conn' = "open" /\ conn # "open") => (pc = "list" /\ pc' = "send")
       /\ (InCycle /\ pc' \notin {"send", "recv"}) => conn' = "none"
       /\ (pc = "list" /\ pc' # "send") => conn' = "none"]_vars

\* C31 witness: a cycle over two entries in which a round-trip failed has
\* ended and the agent is back in its sleep without a socket.
C31_Witness ==
    /\ pc = "sleep"
    /\ conn = "none"
    /\ cycleFailed
    /\ Len(json_files) = 2
    /\ idx = 3

\* The handler of connection k is between its start and its cleanup.
HandlerActive(k) == sess[k] \in {"reading", "saving", "closing"}

\* C32: a connection is in connected_clients exactly from the start of its
\* handler to that handler's cleanup, and the entry of an established
\* connection is never removed or replaced by another handler.
C32_RegistryOwnership ==
    [][/\ \A k \in Sessions : HandlerActive(k) <=> k \in Registered
       /\ \A k \in Sessions :
             (Live(k) /\ k \in Registered /\ sess'[k] = sess[k]) =>
                /\ addr[k] \in DOMAIN connected_clients'
                /\ connected_clients'[addr[k]] = k]_vars

\* C33: with the Collector reachable and the Persistence Gateway succeeding
\* every entry is acknowledged and removed by a delivery cycle, so none
\* stays pending for ever: a round-trip in which the agent reads the
\* Collector's reply to the entry's own frame, and that reply is not a
\* failure of the gateway, removes the entry.
C33_AnsweredEntryRemoved ==
    [][(/\ RoundTripEnds
        /\ conn = "open"
        /\ json_files[idx] \in DOMAIN files
        /\ Len(LinesRead) = 1
        /\ LinesRead[1].for = files[json_files[idx]].id
        /\ LinesRead[1].text # SaveError)
          => json_files[idx] \notin DOMAIN files']_vars

\* C34: whenever 1.json exists with a complete content, its record has both
\* os and type_machine and the Collector classifies its frame as a Profile,
\* also when collect_initial_data failed inside save_initial_data.
C34_SlotOneHoldsProfile ==
    (1 \in DOMAIN files /\ files[1].kind # "partial") =>
       LET file_data == extract_data_from_message(Frame(files, 1))
       IN  /\ Truthy(file_data)
           /\ is_initial_data(file_data.value)

\* C35: once initialize_data_collection has run, file_counter is at least 2
\* and a step of save_variable_data_to_file creates or changes no entry
\* below 2, whether or not 1.json exists at that moment.
C35_SampleNeverAtOne ==
    [][/\ pc # "main" => file_counter >= 2
       /\ (pc = "sample" /\ pc' = "timer") =>
             /\ SampleSlot(files, file_counter) >= 2
             /\ \A n \in DOMAIN files' :
                   (n \notin DOMAIN files \/ files'[n] # files[n]) => n >= 2
             /\ 1 \in DOMAIN files => 1 \in DOMAIN files']_vars

\* C35 witness: 1.json was written, delivered and deleted, and the Sample
\* written last went to a number >= 2 while 1.json was absent.
C35_Witness ==
    /\ pc = "timer"
    /\ profileWritten
    /\ 1 \notin DOMAIN files
    /\ \E n \in DOMAIN files :
          /\ files[n].kind = "sample"
          /\ files[n].id = nextId - 1

\* A step that writes a whole Sample to the number n.
WritesSampleAt(n) ==
    /\ SampleWritten
    /\ n \in DOMAIN files' \ DOMAIN files
    /\ files'[n].kind = "sample"

\* C36: while the process runs file_counter never decreases, a Sample is
\* written to a number that is not below file_counter and file_counter is
\* then moved past it: the numbers of the Samples a process writes
\* increase strictly and none is used twice, also after deletions.
C36_SampleNumbersIncrease ==
    [][/\ (pc # "main" /\ pc' # "main") => file_counter' >= file_counter
       /\ \A n \in DOMAIN files' :
             WritesSampleAt(n) => (n >= file_counter /\ file_counter' = n + 1)]_vars

\* C36 witness: the process wrote a Sample to 2, delivered and deleted it,
\* and wrote its next Sample to 3.
C36_Witness ==
    /\ pc = "timer"
    /\ 2 \notin DOMAIN files
    /\ 3 \in DOMAIN files
    /\ files[3].kind = "sample"
    /\ files[3].id = nextId - 1
    /\ file_counter = 4
    /\ persisted # {}

\* The agent is inside send_files_to_server.
Delivering == pc \in {"list", "send", "recv"}

\* C37: the loop enters a delivery cycle only from its timer test and only
\* when SEND_INTERVAL has elapsed since the timer was restarted; the timer
\* is restarted with the cycle and reads zero when the cycle is over, failed
\* or not; the cycle is followed by the loop's sleep, never by another
\* cycle, so a failed cycle is retried only after the next interval.
C37_SendTimer ==
    [][/\ (~Delivering /\ Delivering') =>
             (pc = "timer" /\ pc' = "list" /\ elapsed >= SendTicks /\ elapsed' = 0)
       /\ (Delivering /\ pc' # "main") => elapsed' = 0
       /\ (Delivering /\ ~Delivering') => pc' \in {"sleep", "main"}
       /\ (pc = "timer" /\ elapsed < SendTicks) => ~Delivering']_vars

\* C37 witness: a cycle whose connect failed is over, every listed entry is
\* still in the spool, and the loop is at its sleep with the timer restarted.
C37_Witness ==
    /\ pc = "sleep"
    /\ elapsed = 0
    /\ json_files # <<>>
    /\ idx = 1
    /\ conn = "none"
    /\ \A i \in 1..Len(json_files) : json_files[i] \in DOMAIN files

====
